---------------------------- MODULE Spec2Model ----------------------------
(***************************************************************************)
(* Zonk hand history with observers (src/pregunta5.py).                    *)
(*                                                                         *)
(* A ZonkHandHistory records the hands of one player and, after each       *)
(* recorded hand, calls the observers registered on it, one after the      *)
(* other.  The program is single threaded: one call is in progress at a    *)
(* time, and pc/idx give the position of that call inside the loop of      *)
(* _notify_observers.                                                      *)
(***************************************************************************)
EXTENDS Naturals, Sequences, FiniteSets

VARIABLES
    observers,  \* subject -> self._observers, the list of registered callables
    rolls,      \* subject -> self.rolls; a subject is in the domain once the
                \* attribute exists (__init__ only declares it)
    dice,       \* subject -> self.dice_set.dice, once the dice were rolled
    count,      \* SaveZonkHand instance -> self.count
    zonked,     \* ThreePairZonkHand instance -> self.zonked
    printed,    \* what the observers printed during the latest start()/roll()
    called,     \* the observers invoked during the latest start()/roll(), in order
    pc,         \* "idle": no call in progress; "notify": inside _notify_observers
    idx,        \* position of the for loop of _notify_observers in the list
    last,       \* the call in progress (pc = "notify") or the latest finished call:
                \* operation, subject, exception that left it, value returned, and
                \* the number of hands the log held when it was entered
    since,      \* subject -> start()/roll() calls since, and with, its latest start()
    hist,       \* subject -> history of the attach/detach calls made on it
    audit       \* history of the notifications: per recorder the invocations it
                \* received and whether it kept step with the subject it watches,
                \* and the registration list as the latest round found it

vars ==
    <<observers, rolls, dice, count, zonked, printed, called, pc, idx, last,
      since, hist, audit>>

-----------------------------------------------------------------------------
(* Bounds of the model *)

MaxObservers == 2   \* longest registration list explored
MaxRolls == 2       \* longest roll log explored
MaxCount == 3       \* no new start()/roll() once a recorder has counted this far
MaxEntries == 3     \* longest registration list that detach is explored on

(* Program constants: the dice set "6d6" *)

NumDice == 6
Sides == 6

-----------------------------------------------------------------------------
(* The objects of a run *)

\* the two players of the doctests, each a ZonkHandHistory
Subjects == {"Bo", "David"}

\* observer instances; hand[o] is the subject given to the constructor
SaveObservers == {"save_history"}
PairObservers == {"find_3_pair", "other_3_pair"}
Observers == SaveObservers \cup PairObservers

hand == [o \in Observers |-> IF o = "other_3_pair" THEN "David" ELSE "Bo"]

\* hands the dice set hands out in the explored runs
DiceOutcomes ==
    { <<1, 1, 2, 3, 6, 6>>, <<2, 2, 4, 4, 5, 5>> }

\* every hand of NumDice dice
AllHands == [1..NumDice -> 1..Sides]

-----------------------------------------------------------------------------
(* Helpers: Python list operations *)

Last(s) == s[Len(s)]

Range(s) == { s[i] : i \in DOMAIN s }

\* list.index: position of the first occurrence of x in s (x occurs in s)
IndexOf(s, x) == CHOOSE i \in DOMAIN s : s[i] = x /\ \A j \in 1..(i - 1) : s[j] # x

RemoveLastOccurrence(s, x) ==
    LET i == CHOOSE k \in DOMAIN s : s[k] = x /\ \A j \in (k + 1)..Len(s) : s[j] # x
    IN  SubSeq(s, 1, i - 1) \o SubSeq(s, i + 1, Len(s))

RemoveLastEntry(s, x) == SubSeq(s, 1, Len(s) - 1)

\* list.remove on a list that holds x: the first occurrence goes
RemoveFirst(s, x) ==
    LET i == IndexOf(s, x)
    IN  SubSeq(s, 1, i - 1) \o SubSeq(s, i + 1, Len(s))

\* list.count
RECURSIVE ListCount(_, _)
ListCount(s, v) ==
    IF s = <<>> THEN 0
    ELSE (IF s[1] = v THEN 1 ELSE 0) + ListCount(Tail(s), v)

-----------------------------------------------------------------------------
(* json.dumps of a list of lists of die faces *)

Digit == <<"1", "2", "3", "4", "5", "6", "7", "8", "9">>

RECURSIVE JoinHand(_)
JoinHand(h) ==
    IF h = <<>> THEN ""
    ELSE IF Len(h) = 1 THEN Digit[h[1]]
    ELSE Digit[h[1]] \o ", " \o JoinHand(Tail(h))

DumpHand(h) == "[" \o JoinHand(h) \o "]"

RECURSIVE JoinRolls(_)
JoinRolls(rs) ==
    IF rs = <<>> THEN ""
    ELSE IF Len(rs) = 1 THEN DumpHand(rs[1])
    ELSE DumpHand(rs[1]) \o ", " \o JoinRolls(Tail(rs))

JsonDumps(rs) == "[" \o JoinRolls(rs) \o "]"

-----------------------------------------------------------------------------
(* ThreePairZonkHand.__call__: the test on the latest hand *)

ThreePairAny(last_roll) ==
    LET distinct_values == Range(last_roll)
    IN  /\ Cardinality(distinct_values) = 3
        /\ \E v \in distinct_values : ListCount(last_roll, v) = 2

ThreePair(last_roll) ==
    LET distinct_values == Range(last_roll)
    IN  /\ Cardinality(distinct_values) = 3
        /\ \A v \in distinct_values : ListCount(last_roll, v) = 2

-----------------------------------------------------------------------------
(* Initial state: objects constructed, nothing attached, start() not called *)

NoValue == <<>>

CallRec(op, s, had, exc, val) ==
    [op |-> op, subject |-> s, had |-> had, raised |-> exc, value |-> val]

\* history of the calls on one subject's registration list:
\*   log       the observers passed to attach, in call order, as long as no
\*             detach has removed an entry (<<>> afterwards)
\*   nodetach  no detach has removed an entry so far
\*   gone      observers whose latest attach/detach call is a detach that returned
\*   net       per observer, attach calls minus detach calls that returned
NoHistory ==
    [log |-> <<>>, nodetach |-> TRUE, gone |-> {}, net |-> [o \in Observers |-> 0]]

\* history of the notifications:
\*   received  per recorder, the invocations made of it so far
\*   origin    per subject and recorder, the invocations made of the recorder
\*             by the start()/roll() calls of that subject
\*   steady    per recorder: every start()/roll() so far invoked the recorder
\*             once if it was a call of the subject the recorder watches, and
\*             not at all otherwise
\*   restarted the subjects on which start() was called with a log in place
\*   entered   the registration list when the latest start()/roll() began its
\*             notification round
NoAudit ==
    [received |-> [o \in SaveObservers |-> 0],
     origin |-> [s \in Subjects |-> [o \in SaveObservers |-> 0]],
     steady |-> [o \in SaveObservers |-> TRUE],
     restarted |-> {},
     entered |-> <<>>]

Init ==
    /\ observers = [s \in Subjects |-> <<>>]
    /\ rolls = [s \in {} |-> <<>>]
    /\ dice = [s \in {} |-> <<>>]
    /\ count = [o \in SaveObservers |-> 0]
    /\ zonked = [o \in PairObservers |-> FALSE]
    /\ printed = <<>>
    /\ called = <<>>
    /\ pc = "idle"
    /\ idx = 0
    /\ last = CallRec("new", "Bo", 0, "none", NoValue)
    /\ since = [s \in Subjects |-> 0]
    /\ hist = [s \in Subjects |-> NoHistory]
    /\ audit = NoAudit

-----------------------------------------------------------------------------
(* Observable *)

RegisteredFront(list, o) == <<o>> \o list

\* attach: self._observers.append(observer), no duplicate check
Registered(list, o) == Append(list, o)

Attach(s, o) ==
    /\ pc = "idle"
    /\ Len(observers[s]) < MaxObservers
    /\ observers' = [observers EXCEPT ![s] = Registered(@, o)]
    /\ last' = CallRec("attach", s, 0, "none", NoValue)
    /\ hist' = [hist EXCEPT ![s].log = IF hist[s].nodetach THEN Append(@, o) ELSE @,
                            ![s].gone = @ \ {o},
                            ![s].net[o] = @ + 1]
    /\ UNCHANGED <<rolls, dice, count, zonked, printed, called, pc, idx, since, audit>>

DetachIgnoresMissing(s, o) ==
    /\ pc = "idle"
    /\ observers' = [observers EXCEPT ![s] =
                        IF o \in Range(@) THEN RemoveFirst(@, o) ELSE @]
    /\ last' = CallRec("detach", s, 0, "none", NoValue)
    /\ hist' = [hist EXCEPT ![s].log = <<>>,
                            ![s].nodetach = FALSE,
                            ![s].gone = @ \cup {o},
                            ![s].net[o] = IF @ > 0 THEN @ - 1 ELSE @]
    /\ UNCHANGED <<rolls, dice, count, zonked, printed, called, pc, idx, since, audit>>

\* detach: self._observers.remove(observer); list.remove raises ValueError
\* when the observer is not in the list
Detach(s, o) ==
    /\ pc = "idle"
    /\ IF o \in Range(observers[s])
       THEN /\ observers' = [observers EXCEPT ![s] = RemoveFirst(@, o)]
            /\ last' = CallRec("detach", s, 0, "none", NoValue)
            /\ hist' = [hist EXCEPT ![s].log = <<>>,
                                    ![s].nodetach = FALSE,
                                    ![s].gone = @ \cup {o},
                                    ![s].net[o] = @ - 1]
       ELSE /\ observers' = observers
            /\ last' = CallRec("detach", s, 0, "ValueError", NoValue)
            /\ hist' = hist
    /\ UNCHANGED <<rolls, dice, count, zonked, printed, called, pc, idx, since, audit>>

-----------------------------------------------------------------------------
(* ZonkHandHistory *)

\* the attribute self.rolls exists
HasRolls(s) == s \in DOMAIN rolls

\* attribute assignment: obj.attr = v
Assign(attr, s, v) == [t \in DOMAIN attr \cup {s} |-> IF t = s THEN v ELSE attr[t]]

\* hands in the log of s, none while the attribute does not exist
Held(s) == IF HasRolls(s) THEN Len(rolls[s]) ELSE 0

\* the notification round of op on s begins
Entered(a, op, s) ==
    [a EXCEPT !.entered = observers[s],
              !.restarted = IF op = "start" /\ HasRolls(s) THEN @ \cup {s} ELSE @]

\* an invocation of o
Notified(a, o) ==
    IF o \in SaveObservers
    THEN [a EXCEPT !.received[o] = @ + 1, !.origin[last.subject][o] = @ + 1]
    ELSE a

\* the start()/roll() of s is over, having invoked the observers of log
Ended(a, s, log) ==
    [a EXCEPT !.steady = [o \in SaveObservers |->
                            a.steady[o]
                            /\ ListCount(log, o) = IF hand[o] = s THEN 1 ELSE 0]]

CountersBelowCap == \A o \in SaveObservers : count[o] < MaxCount

StartNotifiesFirst(s, h) ==
    /\ pc = "idle"
    /\ CountersBelowCap
    /\ dice' = Assign(dice, s, h)
    /\ rolls' = rolls
    /\ pc' = "notify"
    /\ idx' = 0
    /\ called' = <<>>
    /\ printed' = <<>>
    /\ last' = CallRec("start", s, Held(s), "none", NoValue)
    /\ since' = [since EXCEPT ![s] = 1]
    /\ audit' = Entered(audit, "start", s)
    /\ UNCHANGED <<observers, count, zonked, hist>>

StartKeepsHistory(s, h) ==
    /\ pc = "idle"
    /\ CountersBelowCap
    /\ HasRolls(s) => Len(rolls[s]) < MaxRolls
    /\ dice' = Assign(dice, s, h)
    /\ rolls' = Assign(rolls, s, IF HasRolls(s) THEN Append(rolls[s], h) ELSE <<h>>)
    /\ pc' = "notify"
    /\ idx' = 0
    /\ called' = <<>>
    /\ printed' = <<>>
    /\ last' = CallRec("start", s, Held(s), "none", NoValue)
    /\ since' = [since EXCEPT ![s] = 1]
    /\ audit' = Entered(audit, "start", s)
    /\ UNCHANGED <<observers, count, zonked, hist>>

StartEmptyLog(s, h) ==
    /\ pc = "idle"
    /\ CountersBelowCap
    /\ dice' = Assign(dice, s, h)
    /\ rolls' = Assign(rolls, s, <<>>)
    /\ pc' = "notify"
    /\ idx' = 0
    /\ called' = <<>>
    /\ printed' = <<>>
    /\ last' = CallRec("start", s, Held(s), "none", NoValue)
    /\ since' = [since EXCEPT ![s] = 1]
    /\ audit' = Entered(audit, "start", s)
    /\ UNCHANGED <<observers, count, zonked, hist>>

\* start, up to the call of _notify_observers: the dice are rolled and the
\* log is replaced by a list holding the new hand
Start(s, h) ==
    /\ pc = "idle"
    /\ CountersBelowCap
    /\ dice' = Assign(dice, s, h)
    /\ rolls' = Assign(rolls, s, <<h>>)
    /\ pc' = "notify"
    /\ idx' = 0
    /\ called' = <<>>
    /\ printed' = <<>>
    /\ last' = CallRec("start", s, Held(s), "none", NoValue)
    /\ since' = [since EXCEPT ![s] = 1]
    /\ audit' = Entered(audit, "start", s)
    /\ UNCHANGED <<observers, count, zonked, hist>>

AppendedAlone(log, h) == <<h>>

\* self.rolls.append(self.dice_set.dice)
Appended(log, h) == Append(log, h)

RollFabricates(s, h) ==
    /\ pc = "idle"
    /\ CountersBelowCap
    /\ HasRolls(s) => Len(rolls[s]) < MaxRolls
    /\ dice' = Assign(dice, s, h)
    /\ called' = <<>>
    /\ printed' = <<>>
    /\ rolls' = Assign(rolls, s, IF HasRolls(s) THEN Appended(rolls[s], h) ELSE <<h>>)
    /\ pc' = "notify"
    /\ idx' = 0
    /\ last' = CallRec("roll", s, Held(s), "none", NoValue)
    /\ since' = [since EXCEPT ![s] = @ + 1]
    /\ audit' = Entered(audit, "roll", s)
    /\ UNCHANGED <<observers, count, zonked, hist>>

\* roll, up to the call of _notify_observers: the dice are rolled, then the
\* hand is appended to self.rolls; without a start() the attribute does not
\* exist and the append raises AttributeError
Roll(s, h) ==
    /\ pc = "idle"
    /\ CountersBelowCap
    /\ HasRolls(s) => Len(rolls[s]) < MaxRolls
    /\ dice' = Assign(dice, s, h)
    /\ called' = <<>>
    /\ printed' = <<>>
    /\ IF HasRolls(s)
       THEN /\ rolls' = Assign(rolls, s, Appended(rolls[s], h))
            /\ pc' = "notify"
            /\ idx' = 0
            /\ last' = CallRec("roll", s, Held(s), "none", NoValue)
            /\ since' = [since EXCEPT ![s] = @ + 1]
            /\ audit' = Entered(audit, "roll", s)
       ELSE /\ rolls' = rolls
            /\ pc' = "idle"
            /\ idx' = idx
            /\ last' = CallRec("roll", s, Held(s), "AttributeError", NoValue)
            /\ since' = since
            /\ audit' = audit
    /\ UNCHANGED <<observers, count, zonked, hist>>

-----------------------------------------------------------------------------
(* The observers' __call__ *)

\* both callbacks read self.hand.rolls, which raises AttributeError while the
\* subject given to the constructor has not been started
Raises(o) == ~HasRolls(hand[o])

RecordLatestOnly(o) ==
    [text |-> "SaveZonkHand", player |-> hand[o], sequence |-> count[o] + 1,
     hands |-> JsonDumps(<<Last(rolls[hand[o]])>>)]

RecordOfTrigger(o) ==
    [text |-> "SaveZonkHand", player |-> last.subject, sequence |-> count[o] + 1,
     hands |-> JsonDumps(rolls[last.subject])]

Record(o) ==
    [text |-> "SaveZonkHand", player |-> hand[o], sequence |-> count[o] + 1,
     hands |-> JsonDumps(rolls[hand[o]])]

ZonkMessage == [text |-> "3 Pair Zonk!", player |-> "", sequence |-> 0, hands |-> ""]

SaveCallCountsLog(o) ==
    /\ count' = [count EXCEPT ![o] = Held(hand[o])]
    /\ printed' = IF Raises(o) THEN printed ELSE Append(printed, Record(o))
    /\ zonked' = zonked
    /\ UNCHANGED <<observers, rolls, dice>>

SaveCallCountsTrigger(o) ==
    /\ count' = [count EXCEPT ![o] = audit.origin[last.subject][o] + 1]
    /\ printed' = IF Raises(o) THEN printed ELSE Append(printed, Record(o))
    /\ zonked' = zonked
    /\ UNCHANGED <<observers, rolls, dice>>

\* SaveZonkHand.__call__: the counter goes up first, then the record is built
\* and printed
SaveCall(o) ==
    /\ count' = [count EXCEPT ![o] = @ + 1]
    /\ printed' = IF Raises(o) THEN printed ELSE Append(printed, Record(o))
    /\ zonked' = zonked
    /\ UNCHANGED <<observers, rolls, dice>>

PairCallSticky(o) ==
    /\ zonked' = IF Raises(o) THEN zonked
                 ELSE [zonked EXCEPT ![o] = @ \/ ThreePair(Last(rolls[hand[o]]))]
    /\ printed' = IF ~Raises(o) /\ zonked'[o]
                  THEN Append(printed, ZonkMessage) ELSE printed
    /\ count' = count
    /\ UNCHANGED <<observers, rolls, dice>>

PairCallPops(o) ==
    /\ zonked' = IF Raises(o) THEN zonked
                 ELSE [zonked EXCEPT ![o] = ThreePair(Last(rolls[hand[o]]))]
    /\ printed' = IF ~Raises(o) /\ zonked'[o]
                  THEN Append(printed, ZonkMessage) ELSE printed
    /\ count' = count
    /\ rolls' = IF Raises(o) THEN rolls
                ELSE [rolls EXCEPT ![hand[o]] = SubSeq(@, 1, Len(@) - 1)]
    /\ UNCHANGED <<observers, dice>>

\* ThreePairZonkHand.__call__: zonked is assigned from the latest hand alone
PairCall(o) ==
    /\ zonked' = IF Raises(o) THEN zonked
                 ELSE [zonked EXCEPT ![o] = ThreePair(Last(rolls[hand[o]]))]
    /\ printed' = IF ~Raises(o) /\ zonked'[o]
                  THEN Append(printed, ZonkMessage) ELSE printed
    /\ count' = count
    /\ UNCHANGED <<observers, rolls, dice>>

-----------------------------------------------------------------------------
(* _notify_observers: for observer in self._observers: observer() *)

InvokeIsolated ==
    /\ pc = "notify"
    /\ idx < Len(observers[last.subject])
    /\ observers[last.subject][idx + 1] \in Observers
    /\ LET o == observers[last.subject][idx + 1]
       IN  /\ called' = Append(called, o)
           /\ IF o \in SaveObservers THEN SaveCall(o) ELSE PairCall(o)
           /\ pc' = "notify"
           /\ idx' = idx + 1
           /\ last' = last
           /\ audit' = Notified(audit, o)
    /\ UNCHANGED <<since, hist>>

\* one pass of the loop body; an exception of the callback leaves the loop,
\* _notify_observers and start()/roll(), none of which catches it
Invoke ==
    /\ pc = "notify"
    /\ idx < Len(observers[last.subject])
    /\ observers[last.subject][idx + 1] \in Observers
    /\ LET o == observers[last.subject][idx + 1]
       IN  /\ called' = Append(called, o)
           /\ IF o \in SaveObservers THEN SaveCall(o) ELSE PairCall(o)
           /\ IF Raises(o)
              THEN /\ pc' = "idle"
                   /\ idx' = idx
                   /\ last' = [last EXCEPT !.raised = "AttributeError"]
                   /\ audit' = Ended(Notified(audit, o), last.subject, called')
              ELSE /\ pc' = "notify"
                   /\ idx' = idx + 1
                   /\ last' = last
                   /\ audit' = Notified(audit, o)
    /\ UNCHANGED <<since, hist>>

ReturnFirstHand ==
    /\ pc = "notify"
    /\ idx >= Len(observers[last.subject])
    /\ pc' = "idle"
    /\ last' = [last EXCEPT !.value = rolls[last.subject][1]]
    /\ audit' = Ended(audit, last.subject, called)
    /\ UNCHANGED <<observers, rolls, dice, count, zonked, printed, called, idx,
                   since, hist>>

\* Observer is any callable, so a callback may itself call attach or detach
\* on the subject that is notifying it:
\*   one_shot   detaches itself when invoked
\*   recruiter  attaches find_3_pair when invoked
Callables == {"one_shot", "recruiter"}

\* one pass of the loop body for such a callable; the for loop goes on over
\* the list object that the callback has just changed
InvokeCallable ==
    /\ pc = "notify"
    /\ idx < Len(observers[last.subject])
    /\ observers[last.subject][idx + 1] \in Callables
    /\ LET s == last.subject
           o == observers[s][idx + 1]
       IN  /\ called' = Append(called, o)
           /\ IF o = "one_shot"
              THEN /\ observers' = [observers EXCEPT ![s] = RemoveFirst(@, o)]
                   /\ hist' = [hist EXCEPT ![s].log = <<>>,
                                           ![s].nodetach = FALSE,
                                           ![s].gone = @ \cup {o}]
              ELSE /\ Len(observers[s]) < MaxObservers
                   /\ observers' = [observers EXCEPT ![s] = Registered(@, "find_3_pair")]
                   /\ hist' = [hist EXCEPT
                                 ![s].log = IF hist[s].nodetach
                                            THEN Append(@, "find_3_pair") ELSE @,
                                 ![s].gone = @ \ {"find_3_pair"},
                                 ![s].net["find_3_pair"] = @ + 1]
    /\ pc' = "notify"
    /\ idx' = idx + 1
    /\ UNCHANGED <<rolls, dice, count, zonked, printed, last, since, audit>>

\* the list is exhausted: _notify_observers returns, and start()/roll()
\* returns self.dice_set.dice
Return ==
    /\ pc = "notify"
    /\ idx >= Len(observers[last.subject])
    /\ pc' = "idle"
    /\ last' = [last EXCEPT !.value = dice[last.subject]]
    /\ audit' = Ended(audit, last.subject, called)
    /\ UNCHANGED <<observers, rolls, dice, count, zonked, printed, called, idx,
                   since, hist>>

-----------------------------------------------------------------------------
(* The program: calls made one at a time by a single-threaded caller *)

\* the subject the caller plays; the other one stays as constructed
Played == {"Bo"}

Next ==
    \/ \E s \in Played, o \in Observers : Attach(s, o)
    \/ \E s \in Played, o \in Observers : Detach(s, o)
    \/ \E s \in Played, h \in DiceOutcomes : Start(s, h)
    \/ \E s \in Played, h \in DiceOutcomes : Roll(s, h)
    \/ Invoke
    \/ Return

Spec == Init /\ [][Next]_vars

-----------------------------------------------------------------------------
(* The detector on every hand: start() of "Bo" has rolled any hand of the    *)
(* dice set and recorded it, find_3_pair is registered, its flag is left    *)
(* from an earlier round, and the notification round is about to begin      *)

InitDetect ==
    \E h \in AllHands, z \in BOOLEAN :
        /\ observers = [s \in Subjects |-> IF s = "Bo" THEN <<"find_3_pair">> ELSE <<>>]
        /\ rolls = [s \in {"Bo"} |-> <<h>>]
        /\ dice = [s \in {"Bo"} |-> h]
        /\ count = [o \in SaveObservers |-> 0]
        /\ zonked = [o \in PairObservers |-> o = "find_3_pair" /\ z]
        /\ printed = <<>>
        /\ called = <<>>
        /\ pc = "notify"
        /\ idx = 0
        /\ last = CallRec("start", "Bo", 0, "none", NoValue)
        /\ since = [s \in Subjects |-> IF s = "Bo" THEN 1 ELSE 0]
        /\ hist = [s \in Subjects |->
                     IF s = "Bo"
                     THEN [NoHistory EXCEPT !.log = <<"find_3_pair">>,
                                            !.net["find_3_pair"] = 1]
                     ELSE NoHistory]
        /\ audit = [NoAudit EXCEPT !.entered = <<"find_3_pair">>]

NextDetect == Invoke \/ Return

SpecDetect == InitDetect /\ [][NextDetect]_vars

-----------------------------------------------------------------------------
(* Two subjects played: save_history, made for "Bo", has been attached to    *)
(* both subjects, and find_3_pair, made for "Bo", to "David"                 *)

Attached(list) ==
    [NoHistory EXCEPT !.log = list,
                      !.net = [o \in Observers |-> ListCount(list, o)]]

InitTwo ==
    /\ observers = [s \in Subjects |->
                      IF s = "Bo" THEN <<"save_history">>
                      ELSE <<"save_history", "find_3_pair">>]
    /\ rolls = [s \in {} |-> <<>>]
    /\ dice = [s \in {} |-> <<>>]
    /\ count = [o \in SaveObservers |-> 0]
    /\ zonked = [o \in PairObservers |-> FALSE]
    /\ printed = <<>>
    /\ called = <<>>
    /\ pc = "idle"
    /\ idx = 0
    /\ last = CallRec("attach", "David", 0, "none", NoValue)
    /\ since = [s \in Subjects |-> 0]
    /\ hist = [s \in Subjects |-> Attached(observers[s])]
    /\ audit = NoAudit

NextTwo ==
    \/ \E s \in Subjects, h \in DiceOutcomes : Start(s, h)
    \/ \E s \in Subjects, h \in DiceOutcomes : Roll(s, h)
    \/ Invoke
    \/ Return

SpecTwo == InitTwo /\ [][NextTwo]_vars

-----------------------------------------------------------------------------
(* detach on every registration list of up to MaxEntries entries, each      *)
(* built by that many attach calls on "Bo"                                  *)

Lists == UNION { [1..n -> Observers] : n \in 0..MaxEntries }

InitDetach ==
    \E list \in Lists :
        /\ observers = [s \in Subjects |-> IF s = "Bo" THEN list ELSE <<>>]
        /\ rolls = [s \in {} |-> <<>>]
        /\ dice = [s \in {} |-> <<>>]
        /\ count = [o \in SaveObservers |-> 0]
        /\ zonked = [o \in PairObservers |-> FALSE]
        /\ printed = <<>>
        /\ called = <<>>
        /\ pc = "idle"
        /\ idx = 0
        /\ last = CallRec("new", "Bo", 0, "none", NoValue)
        /\ since = [s \in Subjects |-> 0]
        /\ hist = [s \in Subjects |-> Attached(observers[s])]
        /\ audit = NoAudit

NextDetach == \E s \in Played, o \in Observers : Detach(s, o)

SpecDetach == InitDetach /\ [][NextDetach]_vars

-----------------------------------------------------------------------------
(* Callbacks that change the registration list: any list of up to          *)
(* MaxObservers observers and callables has been attached to "Bo"          *)

ReentrantLists ==
    UNION { [1..n -> Observers \cup Callables] : n \in 1..MaxObservers }

InitReentrant ==
    \E list \in ReentrantLists :
        /\ observers = [s \in Subjects |-> IF s = "Bo" THEN list ELSE <<>>]
        /\ rolls = [s \in {} |-> <<>>]
        /\ dice = [s \in {} |-> <<>>]
        /\ count = [o \in SaveObservers |-> 0]
        /\ zonked = [o \in PairObservers |-> FALSE]
        /\ printed = <<>>
        /\ called = <<>>
        /\ pc = "idle"
        /\ idx = 0
        /\ last = CallRec("attach", "Bo", 0, "none", NoValue)
        /\ since = [s \in Subjects |-> 0]
        /\ hist = [s \in Subjects |-> Attached(observers[s])]
        /\ audit = NoAudit

NextReentrant ==
    \/ \E s \in Played, h \in DiceOutcomes : Start(s, h)
    \/ \E s \in Played, h \in DiceOutcomes : Roll(s, h)
    \/ Invoke
    \/ InvokeCallable
    \/ Return

SpecReentrant == InitReentrant /\ [][NextReentrant]_vars

-----------------------------------------------------------------------------
(* Properties *)

\* a start()/roll() is over and nothing was called since
AfterEvent == pc = "idle" /\ last.op \in {"start", "roll"}

\* ... and it returned to its caller without an exception
ReturnedNormally == AfterEvent /\ last.raised = "none"

\* ... or an observer's callback raised during its notification round
ObserverFailed == AfterEvent /\ last.raised # "none" /\ called # <<>>

\* C1: a start()/roll() that returns normally has run one notification round,
\* one invocation per registered entry, between its mutation and its return:
\* whenever the loop of _notify_observers is running, the hand of this call is
\* already the last element of rolls, and it still is when the call returns.
NotifyOnceAfterMutation ==
    /\ pc = "notify" =>
         /\ HasRolls(last.subject)
         /\ Last(rolls[last.subject]) = dice[last.subject]
         /\ Len(called) = idx
    /\ ReturnedNormally =>
         /\ Last(rolls[last.subject]) = dice[last.subject]
         /\ Len(called) = Len(observers[last.subject])
         /\ last.value = Last(rolls[last.subject])

NotifiedAfterRoll ==
    /\ ReturnedNormally
    /\ last.op = "roll"
    /\ Len(called) = 2

\* C2: with attach calls only (no detach so far), a start()/roll() invokes the
\* observers in the order of the attach calls, once per call: the invocations
\* of the round are the attach calls, entry by entry, so an observer attached
\* k times is invoked k times at the positions of its attachments.
NotifyInAttachOrder ==
    \A s \in Subjects :
        (hist[s].nodetach /\ last.subject = s /\ last.op \in {"start", "roll"}) =>
            /\ Len(called) <= Len(hist[s].log)
            /\ called = SubSeq(hist[s].log, 1, Len(called))
            /\ ReturnedNormally => called = hist[s].log

NotifiedTwiceInOrder ==
    /\ ReturnedNormally
    /\ hist[last.subject].nodetach
    /\ Len(called) = 2
    /\ called[1] = called[2]

\* C3: after one start() and N-1 roll() calls the log holds N hands, and each
\* roll() leaves the earlier hands where they were and appends one hand.
LogLength ==
    \A s \in Subjects :
        /\ HasRolls(s) => Len(rolls[s]) = since[s]
        /\ ~HasRolls(s) => since[s] = 0

\* a step that enters start()/roll() on s and reaches its notification round
Enters(s) == pc = "idle" /\ pc' = "notify" /\ last'.subject = s

LogStep ==
    \A s \in DOMAIN rolls :
        /\ s \in DOMAIN rolls'
        /\ IF Enters(s)
           THEN last'.op = "roll" => rolls'[s] = Append(rolls[s], dice'[s])
           ELSE rolls'[s] = rolls[s]

AppendOnlyLog == []LogLength /\ [][LogStep]_vars

FullLogAfterRolls ==
    /\ ReturnedNormally
    /\ last.op = "roll"
    /\ since[last.subject] = MaxRolls
    /\ Len(rolls[last.subject]) = MaxRolls
    /\ rolls[last.subject][1] # Last(rolls[last.subject])

\* C4: start() on a subject whose log already holds hands discards them: from
\* then on, until the next call, rolls is the one-element list holding the
\* hand of this start().
RestartResets ==
    (last.op = "start" /\ last.had >= 1) =>
        /\ Len(rolls[last.subject]) = 1
        /\ rolls[last.subject] = <<dice[last.subject]>>
        /\ ReturnedNormally => rolls[last.subject] = <<last.value>>

RestartedAfterTwoHands ==
    /\ ReturnedNormally
    /\ last.op = "start"
    /\ last.had = 2
    /\ called # <<>>

\* C5: when an observer's callback raises during the round of a
\* start()/roll(), the exception reaches the caller, the invocations of the
\* round stop at the raising observer (the entries registered after it are
\* not invoked), and the hand recorded by the call stays in rolls.
FailurePropagates ==
    last.op \in {"start", "roll"} =>
        \A i \in DOMAIN called :
            Raises(called[i]) =>
                LET s == last.subject
                IN  /\ ObserverFailed
                    /\ last.raised = "AttributeError"
                    /\ last.value = NoValue
                    /\ i = Len(called)
                    /\ called = SubSeq(observers[s], 1, i)
                    /\ HasRolls(s)
                    /\ Last(rolls[s]) = dice[s]
                    /\ Len(rolls[s]) = IF last.op = "start" THEN 1 ELSE last.had + 1

FailedBeforeLaterObserver ==
    /\ ObserverFailed
    /\ Raises(called[1])
    /\ last.op = "roll"
    /\ Len(called) = 1
    /\ Len(observers[last.subject]) = 2
    /\ Len(rolls[last.subject]) = 2

\* C6 as stated: once detach(o) has returned on a subject, and until o is
\* attached to it again, no start()/roll() of that subject invokes o.
DetachedNeverNotified ==
    last.op \in {"start", "roll"} =>
        \A i \in DOMAIN called : called[i] \notin hist[last.subject].gone

\* C6, amended: once detach(o) has returned on a subject and every attach of
\* o has been answered by a detach (no entry of o is left), no start()/roll()
\* of that subject invokes o until o is attached again.
FullyDetachedNeverNotified ==
    last.op \in {"start", "roll"} =>
        \A i \in DOMAIN called :
            LET h == hist[last.subject]
            IN  ~(called[i] \in h.gone /\ h.net[called[i]] = 0)

NotifiedWithoutDetached ==
    /\ ReturnedNormally
    /\ called = <<"find_3_pair">>
    /\ "save_history" \in hist[last.subject].gone
    /\ hist[last.subject].net["save_history"] = 0
    /\ count["save_history"] > 0

\* C7: detach(o) on a subject whose registration list does not hold o raises
\* the not-found error of list.remove (ValueError) and changes neither the
\* registration list nor rolls.
DetachOfAbsentFails ==
    \A s \in Subjects, o \in Observers :
        (o \notin Range(observers[s]) /\ Detach(s, o)) =>
            /\ last'.op = "detach"
            /\ last'.raised = "ValueError"
            /\ observers' = observers
            /\ rolls' = rolls

DetachMissesObserver == [][DetachOfAbsentFails]_vars

DetachFailedOnStartedSubject ==
    /\ pc = "idle"
    /\ last.op = "detach"
    /\ last.raised = "ValueError"
    /\ Len(observers[last.subject]) = 2
    /\ HasRolls(last.subject)

\* C8: roll() on a subject on which start() was never called raises (the
\* AttributeError of the missing rolls attribute): no hand is recorded, the
\* attribute stays missing and no observer is invoked.
RollBeforeStartStep ==
    \A s \in Subjects, h \in DiceOutcomes :
        (~HasRolls(s) /\ Roll(s, h)) =>
            /\ last'.op = "roll"
            /\ last'.raised # "none"
            /\ pc' = "idle"
            /\ rolls' = rolls
            /\ called' = <<>>
            /\ count' = count
            /\ zonked' = zonked
            /\ observers' = observers

RollBeforeStartFails == [][RollBeforeStartStep]_vars

RollFailedWithObservers ==
    /\ pc = "idle"
    /\ last.op = "roll"
    /\ last.raised = "AttributeError"
    /\ ~HasRolls(last.subject)
    /\ called = <<>>
    /\ Len(observers[last.subject]) = 2

-----------------------------------------------------------------------------
(* The three-pair shape, from the number of dice showing each face *)

Faces == 1..Sides

Showing(h, v) == Cardinality({ i \in DOMAIN h : h[i] = v })

ThreePairShape(h) ==
    /\ Cardinality({ v \in Faces : Showing(h, v) > 0 }) = 3
    /\ \A v \in Faces : Showing(h, v) \in {0, 2}

\* C10: when a start()/roll() of a subject has returned, every
\* ThreePairZonkHand that watches this subject and is registered on it has
\* zonked equal to the three-pair test of rolls[-1] alone, whatever the
\* earlier hands were and whichever other observers are registered.
ZonkedFollowsLastHand ==
    ReturnedNormally =>
        \A o \in PairObservers :
            (hand[o] = last.subject /\ o \in Range(observers[last.subject])) =>
                zonked[o] = ThreePairShape(Last(rolls[last.subject]))

ZonkedClearedByLaterHand ==
    /\ ReturnedNormally
    /\ "find_3_pair" \in Range(observers["Bo"])
    /\ Len(rolls["Bo"]) = 2
    /\ ThreePairShape(rolls["Bo"][1])
    /\ ~zonked["find_3_pair"]
    /\ last.op = "roll"

\* the hand with the dice at positions i and i + 1 exchanged
Swapped(h, i) ==
    [j \in DOMAIN h |-> IF j = i THEN h[i + 1] ELSE IF j = i + 1 THEN h[i] ELSE h[j]]

\* C9: for every hand as rolls[-1], the callback of ThreePairZonkHand leaves
\* zonked true exactly when the hand shows 3 distinct faces, each on exactly
\* 2 dice; exchanging dice of the hand does not change the outcome, and
\* [2,2,4,4,5,5] gives True, [1,1,2,3,6,6] False.
DetectsThreePair ==
    (pc = "idle" /\ called = <<"find_3_pair">>) =>
        LET h == Last(rolls["Bo"])
            z == zonked["find_3_pair"]
        IN  /\ z = ThreePairShape(h)
            /\ \A i \in 1..(Len(h) - 1) : ThreePair(Swapped(h, i)) = z
            /\ h = <<2, 2, 4, 4, 5, 5>> => z
            /\ h = <<1, 1, 2, 3, 6, 6>> => ~z
            /\ printed = IF z THEN <<ZonkMessage>> ELSE <<>>

DetectedUnsortedThreePair ==
    /\ pc = "idle"
    /\ called = <<"find_3_pair">>
    /\ Last(rolls["Bo"]) = <<5, 2, 4, 2, 5, 4>>
    /\ zonked["find_3_pair"]

-----------------------------------------------------------------------------
(* The recorder *)

\* the records among the printed messages
IsRecord(m) == m.text = "SaveZonkHand"

Records == SelectSeq(printed, IsRecord)

\* C11: the count of a SaveZonkHand starts at 0, goes up by exactly 1 with
\* each notification it receives and is changed by nothing else, a restarting
\* start() included: after K notifications count = K, and the record of the
\* K-th notification carries sequence = K.
CountIsReceived == \A o \in SaveObservers : count[o] = audit.received[o]

CountStep ==
    \A o \in SaveObservers :
        IF audit'.received[o] # audit.received[o]
        THEN /\ audit'.received[o] = audit.received[o] + 1
             /\ count'[o] = count[o] + 1
             /\ Records' # Records =>
                    /\ Len(Records') = Len(Records) + 1
                    /\ Last(Records').sequence = audit'.received[o]
        ELSE count'[o] = count[o]

RecorderCounts == []CountIsReceived /\ [][CountStep]_vars

CountedAcrossRestart ==
    /\ ReturnedNormally
    /\ last.op = "start"
    /\ last.had = 2
    /\ observers[last.subject] = <<"save_history">>
    /\ audit.received["save_history"] = 3
    /\ Records # <<>>
    /\ Last(Records).sequence = 3

\* the text of a log as the doctests print it
HandText(h) ==
    CASE h = <<1, 1, 2, 3, 6, 6>> -> "[1, 1, 2, 3, 6, 6]"
      [] h = <<2, 2, 4, 4, 5, 5>> -> "[2, 2, 4, 4, 5, 5]"

RECURSIVE JoinedText(_)
JoinedText(rs) ==
    IF Len(rs) = 0 THEN ""
    ELSE IF Len(rs) = 1 THEN HandText(rs[1])
    ELSE JoinedText(SubSeq(rs, 1, Len(rs) - 1)) \o ", " \o HandText(Last(rs))

LogText(rs) == "[" \o JoinedText(rs) \o "]"

\* every record at hand shows the whole log of the subject its recorder watches
RecordsShowWholeLog ==
    \A i \in DOMAIN Records :
        LET s == hand["save_history"]
        IN  /\ Records[i].player = s
            /\ HasRolls(s)
            /\ Records[i].hands = LogText(rolls[s])

\* the log of the watched subject is as long as the sequence number says
RecordsNumberTheLog ==
    \A i \in DOMAIN Records :
        Len(rolls[hand["save_history"]]) = Records[i].sequence

\* C12 as stated: for a recorder attached once to the subject it watches from
\* the first start, the K-th record shows the whole log of that moment, and
\* the log holds K hands.
RecordShowsLogOfLengthK ==
    (AfterEvent /\ audit.steady["save_history"]) =>
        RecordsShowWholeLog /\ RecordsNumberTheLog

\* C12, amended: the K-th record shows the whole log of that moment, all hands
\* in order; the log holds K hands as long as start() was called only once on
\* the subject and every call notified the recorder exactly once.
RecordShowsWholeLog ==
    /\ RecordsShowWholeLog
    /\ (AfterEvent /\ audit.steady["save_history"]
           /\ hand["save_history"] \notin audit.restarted) => RecordsNumberTheLog

RecordedTwoHands ==
    /\ ReturnedNormally
    /\ audit.steady["save_history"]
    /\ audit.restarted = {}
    /\ Len(Records) = 1
    /\ Records[1].sequence = 2
    /\ Records[1].hands = "[[1, 1, 2, 3, 6, 6], [2, 2, 4, 4, 5, 5]]"

\* C13: a SaveZonkHand attached to two subjects has one counter for both:
\* count is the number of invocations it received from the calls of the one
\* subject plus those from the calls of the other, and each invocation,
\* whichever subject made it, raises count by 1 and numbers its record with it.
CountIsSumOfOrigins ==
    \A o \in SaveObservers :
        count[o] = audit.origin["Bo"][o] + audit.origin["David"][o]

SequenceStep ==
    \A s \in Subjects, o \in SaveObservers :
        (last.subject = s /\ audit'.origin[s][o] # audit.origin[s][o]) =>
            /\ audit'.origin[s][o] = audit.origin[s][o] + 1
            /\ count'[o] = count[o] + 1
            /\ Records' # Records => Last(Records').sequence = count[o] + 1

CounterSharedBySubjects == []CountIsSumOfOrigins /\ [][SequenceStep]_vars

CountedFromBothSubjects ==
    /\ ReturnedNormally
    /\ audit.origin["Bo"]["save_history"] = 1
    /\ audit.origin["David"]["save_history"] = 2
    /\ count["save_history"] = 3
    /\ Last(Records).sequence = 3

\* C19: the records of a SaveZonkHand and the flag of a ThreePairZonkHand come
\* from the subject given to the constructor: a record shows that subject's
\* player and log, and the flag follows that subject's latest hand, also when
\* the call of another subject, with other hands, made the notification.
FromConstructorSubject ==
    last.op \in {"start", "roll"} =>
        /\ \A i \in DOMAIN Records :
              /\ Records[i].player = hand["save_history"]
              /\ Records[i].hands = LogText(rolls[hand["save_history"]])
        /\ \A o \in PairObservers :
              (o \in Range(called) /\ HasRolls(hand[o])) =>
                  zonked[o] = ThreePairShape(Last(rolls[hand[o]]))

NotifiedByOtherSubject ==
    /\ ReturnedNormally
    /\ last.subject = "David"
    /\ called = <<"save_history", "find_3_pair">>
    /\ ThreePairShape(Last(rolls["David"]))
    /\ ~ThreePairShape(Last(rolls["Bo"]))
    /\ ~zonked["find_3_pair"]
    /\ Len(rolls["David"]) = 1
    /\ Len(rolls["Bo"]) = 2
    /\ Records[1].player = "Bo"
    /\ Records[1].hands = LogText(rolls["Bo"])

\* C14: a start()/roll() that returns normally returns the hand it recorded:
\* the value returned is rolls[-1] of the subject at that moment, and the
\* current hand of the dice.
ReturnsRecordedHand ==
    /\ ReturnedNormally =>
         /\ last.value # NoValue
         /\ last.value = Last(rolls[last.subject])
         /\ last.value = dice[last.subject]
    /\ (AfterEvent /\ last.raised # "none") => last.value = NoValue

ReturnedSecondHand ==
    /\ ReturnedNormally
    /\ last.op = "roll"
    /\ called # <<>>
    /\ rolls[last.subject][1] = <<1, 1, 2, 3, 6, 6>>
    /\ last.value = <<2, 2, 4, 4, 5, 5>>

\* C15: once start() has been called on a subject, rolls exists and holds at
\* least one hand in every later state, whichever calls follow and whether or
\* not an observer raised during a notification round.
Active(s) == HasRolls(s) /\ Len(rolls[s]) >= 1

StartedIsActive == \A s \in Subjects : (since[s] >= 1 \/ HasRolls(s)) => Active(s)

StaysActiveStep == \A s \in Subjects : Active(s) => Active(s)'

NeverBackToIdle == []StartedIsActive /\ [][StaysActiveStep]_vars

ActiveAfterFailedStart ==
    /\ ObserverFailed
    /\ last.op = "start"
    /\ last.had = 0
    /\ Active(last.subject)

\* C16: detach(o) on a list that holds o removes one entry, the first one
\* equal to o: the list is one shorter, the entries before it and after it,
\* later entries of o included, stay, in the order they had.
DetachRemovesFirstStep ==
    \A s \in Subjects, o \in Observers :
        (o \in Range(observers[s]) /\ Detach(s, o)) =>
            LET old == observers[s]
                new == observers'[s]
            IN  /\ last'.raised = "none"
                /\ Len(new) = Len(old) - 1
                /\ \E i \in DOMAIN old :
                      /\ old[i] = o
                      /\ \A j \in 1..(i - 1) : old[j] # o
                      /\ \A j \in DOMAIN new :
                            new[j] = IF j < i THEN old[j] ELSE old[j + 1]

DetachRemovesFirst == [][DetachRemovesFirstStep]_vars

LaterDuplicateStays ==
    /\ last.op = "detach"
    /\ last.raised = "none"
    /\ observers["Bo"] = <<"find_3_pair", "save_history">>
    /\ hist["Bo"].log = <<>>
    /\ hist["Bo"].gone = {"save_history"}
    /\ hist["Bo"].net["save_history"] = 1
    /\ hist["Bo"].net["find_3_pair"] = 1

\* C17: an invocation of SaveZonkHand or ThreePairZonkHand leaves the
\* subjects as they were (rolls, registration lists, dice; the player is the
\* subject's fixed name); a recorder changes its count and a detector its
\* flag, and neither the other's.
Invocation == pc = "notify" /\ Len(called') = Len(called) + 1

CallbackFrameStep ==
    Invocation =>
        /\ rolls' = rolls
        /\ observers' = observers
        /\ dice' = dice
        /\ Last(called') \in SaveObservers =>
              zonked' = zonked /\ count' # count
        /\ Last(called') \in PairObservers => count' = count

CallbacksLeaveSubject == [][CallbackFrameStep]_vars

BothCallbacksActed ==
    /\ pc = "notify"
    /\ idx = 2
    /\ called = <<"save_history", "find_3_pair">>
    /\ observers["Bo"] = called
    /\ zonked["find_3_pair"]
    /\ Len(Records) = 1
    /\ Len(rolls["Bo"]) = 2

\* C18: a notification round invokes the registration list as it stood when
\* the round began, each entry once and in order, also when a callback
\* attaches or detaches on the same subject during the round: no entry is
\* skipped, and an entry attached during the round waits for the next round.
RoundFollowsEntryList ==
    last.op \in {"start", "roll"} =>
        /\ Len(called) <= Len(audit.entered)
        /\ called = SubSeq(audit.entered, 1, Len(called))
        /\ ReturnedNormally => called = audit.entered

=============================================================================
